---- MODULE Spec2Model ----
(***************************************************************************)
(* Model of the outbound request stack of catfleet:                        *)
(*   - RateLimitWithBurst (src/src/client/limit.rs): the dual-bucket rate  *)
(*     limiter, driven by a caller that may poll readiness, call, and let  *)
(*     time pass;                                                          *)
(*   - InnerClient (src/src/client/inner.rs): the connection manager and   *)
(*     its send_request loop, driven by an environment that may close      *)
(*     sessions, cancel streams and fail connects.                         *)
(*   - BaseUrl (src/src/client/base_url.rs), ExtraHeaders                  *)
(*     (src/src/client/middleware/extra_headers.rs) and the stack that     *)
(*     WrappedClient composes (src/src/client/mod.rs);                     *)
(*   - the construction of the limiter and of the connection manager.      *)
(* Time is counted in abstract ticks; a Duration is a number of ticks.     *)
(***************************************************************************)
EXTENDS Integers, Sequences, FiniteSets, TLC

\* ---------------------------------------------------------------- bounds
MaxCount == 2      \* largest Rate.num tried
MaxPeriod == 4     \* largest Rate.per tried (ticks)
MaxTime == 6       \* the clock stops advancing here
MaxSessions == 4   \* sessions a connection manager may establish in total
MaxCancels == 3    \* stream cancellations the environment injects per send
MaxSends == 3      \* sends issued on one connection manager
MaxPathLen == 4    \* longest path-and-query tried, in characters
MaxHeaderValues == 2  \* most values one header name carries before injection
MaxExtraHeaders == 2  \* longest configured list of extra headers

\* ----------------------------------------------------------------- state
VARIABLES
    \* RateLimitWithBurst fields (limit.rs 46-55)
    rate_default, rate_burst, state, until_default, until_burst, rem, sleep,
    \* the tokio clock
    now,
    \* what the limiter's caller has observed
    lastPoll,          \* result of the latest poll_ready not yet followed by a call
    panicked,          \* call() panicked
    calls,             \* invocations of call()
    dispatched,        \* invocations of inner.call(req) made by the limiter
    firstCall,         \* time of the first dispatched call, -1 before it
    inner_always_ready,\* the inner layer never reported Pending so far
    epochKind,         \* which refill opened the current instant: see below
    epochCalls,        \* calls dispatched since then, no time having elapsed
    \* InnerClient (inner.rs 17-20) and one send_request future
    sender,            \* InnerClient.sender of the manager: a session id
    self_sender,       \* self.sender of the clone that send_request owns, 0 = none
    pc,                \* position of the send_request future
    nsessions,         \* sessions established so far (ids 1..nsessions)
    closed,            \* sessions whose transport is closed
    superseded,        \* handles that were replaced after being observed closed
    result,            \* what the latest send returned: "none", "ok", "err"
    delivered,         \* outcomes the latest send handed to its caller
    sends,             \* sends started
    closedObs,         \* closed-transport observations of the latest send
    reconnects,        \* sessions the latest send established
    cancels,           \* stream cancellations of the latest send
    attempts,          \* dispatch attempts of the latest send
    otherErr,          \* the latest send met an error that is neither closed nor canceled
    connectErr,        \* the latest send's connect() failed
    callerReq,         \* the request the caller handed to the latest send
    req,               \* req of send_request, after inner.rs 44
    sent,              \* the request of the latest dispatch attempt of the latest send
    \* the composed stack (client/mod.rs 35-59)
    route,             \* the layers the latest request passed, outermost first
    \* BaseUrl (base_url.rs 25-29) and the request passing through it
    base_url,          \* BaseUrl.base_url
    input_url,         \* the uri of the request handed to BaseUrl::call
    uri,               \* the uri of that request now
    rewritten,         \* BaseUrl::call has run
    \* ExtraHeaders (extra_headers.rs 33-37) and the request passing through it
    extra_headers,     \* ExtraHeaders.headers: the configured list of (name, value)
    orig_headers,      \* the headers of the request handed to ExtraHeaders::call
    req_headers,       \* the headers of that request now
    injected,          \* ExtraHeaders::call has run
    \* RateLimitWithBurstLayer::new (limit.rs 18-31) and Layer::layer (37-39)
    cfg,               \* the four arguments handed to RateLimitWithBurstLayer::new
    layer,             \* "none", "layer" (the layer exists), "built" (the limiter
                       \* exists) or "panic" (an assert of Rate::new failed)
    \* InnerClient::new (inner.rs 29-37) and its call of Connector::connect (161-220)
    manager,           \* "none", "built", "err" (new returned Err) or "panic"
    connStep,          \* the step of connect() that new is waiting on, "idle" outside
    connects,          \* calls of connect() made by new
    failedAt           \* the step of connect() that failed, "none" if none did

limVars == <<rate_default, rate_burst, state, until_default, until_burst, rem, sleep,
             now, lastPoll, panicked, calls, dispatched, firstCall,
             inner_always_ready, epochKind, epochCalls>>
innerVars == <<sender, self_sender, pc, nsessions, closed, superseded, result,
               delivered, sends, closedObs, reconnects, cancels, attempts, otherErr,
               connectErr, callerReq, req, sent>>
stackVars == <<route>>
urlVars == <<base_url, input_url, uri, rewritten>>
hdrVars == <<extra_headers, orig_headers, req_headers, injected>>
cfgVars == <<cfg, layer>>
newVars == <<manager, connStep, connects, failedAt>>
vars == <<limVars, innerVars, stackVars, urlVars, hdrVars, cfgVars, newVars>>

Min(a, b) == IF a <= b THEN a ELSE b

\* ------------------------------------------------------- the rate limiter
\* Rate::new (limit.rs 96-101): num > 0 and per > 0, anything else panics.
Rate(num, per) == [num |-> num, per |-> per]
Rates == {Rate(n, p) : n \in 1..MaxCount, p \in 1..MaxPeriod}

\* rate_default.num() + rate_burst.num(): the shared ceiling.
Ceiling == rate_default.num + rate_burst.num

\* rem of a new limiter (limit.rs 77).
NewRem(rd, rb) == rd.num + rb.num

\* RateLimitWithBurst::new (limit.rs 65-80), at clock value t.
new(t, rd, rb) ==
    /\ rate_default = rd
    /\ rate_burst = rb
    /\ state = "Ready"
    /\ until_default = t
    /\ until_burst = t
    /\ rem = NewRem(rd, rb)
    /\ sleep = t

\* "now >= self.until_*" (limit.rs 142, 151, 171, 180).
Due(t, until) == t >= until

NextUntil_FromDeadline(t, until, per) == IF Due(t, until) THEN until + per ELSE until
\* The deadline after the refill check of one bucket (limit.rs 143, 152, 172, 181).
NextUntil(t, until, per) == IF Due(t, until) THEN t + per ELSE until

RefillDefault_Uncapped(t, until, r) == IF Due(t, until) THEN r + rate_default.num ELSE r
\* rem after the default bucket's refill check (limit.rs 142-147, 171-176).
RefillDefault(t, until, r) ==
    IF Due(t, until) THEN Min(r + rate_default.num, Ceiling) ELSE r

RefillBurst_Uncapped(t, until, r) == IF Due(t, until) THEN r + rate_burst.num ELSE r
\* rem after the burst bucket's refill check (limit.rs 151-156, 180-185).
RefillBurst(t, until, r) ==
    IF Due(t, until) THEN Min(r + rate_burst.num, Ceiling) ELSE r

Refilled_Both(t, ud, ub, r) ==
    IF Due(t, ud) \/ Due(t, ub)
    THEN Min(r + rate_default.num + rate_burst.num, Ceiling)
    ELSE r
\* rem after both refill checks, default first.
Refilled(t, ud, ub, r) == RefillBurst(t, ub, RefillDefault(t, ud, r))

HasSpare_Zero(r) == r > 0
\* "if self.rem > 1" (limit.rs 189).
HasSpare(r) == r > 1

\* The refill that a readiness check or a call would apply now.
DueKind == IF Due(now, until_default) /\ Due(now, until_burst) THEN "both"
           ELSE IF Due(now, until_default) THEN "default"
           ELSE IF Due(now, until_burst) THEN "burst"
           ELSE "none"

\* The inner layer's poll_ready, as seen through ready!().
InnerPoll(innerReady) == IF innerReady THEN "ready" ELSE "pending"

\* poll_ready in State::Ready (limit.rs 127).
pollReadyReady(innerReady) ==
    /\ state = "Ready"
    /\ lastPoll' = InnerPoll(innerReady)
    /\ inner_always_ready' = (inner_always_ready /\ innerReady)
    /\ UNCHANGED <<state, until_default, until_burst, rem, sleep, epochKind, epochCalls>>

pollReadySleeping_Wake ==
    /\ state = "Limited"
    /\ now < sleep
    /\ state' = "Ready"
    /\ lastPoll' = "ready"
    /\ UNCHANGED <<until_default, until_burst, rem, sleep, epochKind, epochCalls,
                   inner_always_ready>>
\* poll_ready in State::Limited, the sleep still pending (limit.rs 128-133).
pollReadySleeping ==
    /\ state = "Limited"
    /\ now < sleep
    /\ lastPoll' = "pending"
    /\ UNCHANGED <<state, until_default, until_burst, rem, sleep, epochKind, epochCalls,
                   inner_always_ready>>

pollReadyRefill_StayLimited(innerReady) ==
    /\ state = "Limited"
    /\ now >= sleep
    /\ until_default' = NextUntil(now, until_default, rate_default.per)
    /\ until_burst' = NextUntil(now, until_burst, rate_burst.per)
    /\ rem' = Refilled(now, until_default, until_burst, rem)
    /\ lastPoll' = "pending"
    /\ UNCHANGED <<state, sleep, inner_always_ready, epochKind, epochCalls>>
pollReadyRefill_InnerFirst(innerReady) ==
    /\ state = "Limited"
    /\ now >= sleep
    /\ IF innerReady
       THEN /\ until_default' = NextUntil(now, until_default, rate_default.per)
            /\ until_burst' = NextUntil(now, until_burst, rate_burst.per)
            /\ rem' = Refilled(now, until_default, until_burst, rem)
            /\ state' = "Ready"
            /\ epochKind' = DueKind
            /\ epochCalls' = 0
       ELSE UNCHANGED <<until_default, until_burst, rem, state, epochKind, epochCalls>>
    /\ lastPoll' = InnerPoll(innerReady)
    /\ inner_always_ready' = (inner_always_ready /\ innerReady)
    /\ UNCHANGED sleep
\* poll_ready in State::Limited, the sleep elapsed (limit.rs 130, 137-161).
pollReadyRefill(innerReady) ==
    /\ state = "Limited"
    /\ now >= sleep
    /\ until_default' = NextUntil(now, until_default, rate_default.per)
    /\ until_burst' = NextUntil(now, until_burst, rate_burst.per)
    /\ rem' = Refilled(now, until_default, until_burst, rem)
    /\ state' = "Ready"
    /\ lastPoll' = InnerPoll(innerReady)
    /\ inner_always_ready' = (inner_always_ready /\ innerReady)
    /\ epochKind' = DueKind
    /\ epochCalls' = 0
    /\ UNCHANGED sleep

\* Service::poll_ready (limit.rs 122-162).
poll_readyWith(innerReady) ==
    /\ ~panicked
    /\ \/ pollReadyReady(innerReady)
       \/ pollReadySleeping
       \/ pollReadyRefill(innerReady)
    /\ UNCHANGED <<rate_default, rate_burst, now, panicked, calls, dispatched, firstCall>>

\* ... over an inner layer that may or may not be ready.
poll_ready == \E innerReady \in BOOLEAN : poll_readyWith(innerReady)

WakeAt_Later(ud, ub) == IF ud <= ub THEN ub ELSE ud
\* "until": the earlier of the two refill deadlines (limit.rs 196-200).
WakeAt(ud, ub) == IF ud <= ub THEN ud ELSE ub

callReady_DropLast ==
    /\ state = "Ready"
    /\ LET ud == NextUntil(now, until_default, rate_default.per)
           ub == NextUntil(now, until_burst, rate_burst.per)
           r  == Refilled(now, until_default, until_burst, rem)
       IN /\ until_default' = ud
          /\ until_burst' = ub
          /\ IF HasSpare(r)
             THEN /\ rem' = r - 1
                  /\ state' = "Ready"
                  /\ dispatched' = dispatched + 1
                  /\ UNCHANGED sleep
             ELSE /\ rem' = r
                  /\ sleep' = WakeAt(ud, ub)
                  /\ state' = "Limited"
                  /\ dispatched' = dispatched
    /\ firstCall' = (IF firstCall < 0 THEN now ELSE firstCall)
    /\ epochCalls' = (IF epochKind = "none" THEN 0 ELSE epochCalls + 1)
    /\ UNCHANGED <<panicked, epochKind>>
\* call in State::Ready (limit.rs 166-208).
callReady ==
    /\ state = "Ready"
    /\ LET ud == NextUntil(now, until_default, rate_default.per)
           ub == NextUntil(now, until_burst, rate_burst.per)
           r  == Refilled(now, until_default, until_burst, rem)
       IN /\ until_default' = ud
          /\ until_burst' = ub
          /\ IF HasSpare(r)
             THEN /\ rem' = r - 1
                  /\ state' = "Ready"
                  /\ UNCHANGED sleep
             ELSE /\ rem' = r
                  /\ sleep' = WakeAt(ud, ub)
                  /\ state' = "Limited"
    /\ dispatched' = dispatched + 1
    /\ firstCall' = (IF firstCall < 0 THEN now ELSE firstCall)
    /\ epochCalls' = (IF epochKind = "none" THEN 0 ELSE epochCalls + 1)
    /\ UNCHANGED <<panicked, epochKind>>

callLimited_Dispatch ==
    /\ state = "Limited"
    /\ dispatched' = dispatched + 1
    /\ firstCall' = (IF firstCall < 0 THEN now ELSE firstCall)
    /\ epochCalls' = (IF epochKind = "none" THEN 0 ELSE epochCalls + 1)
    /\ UNCHANGED <<state, until_default, until_burst, rem, sleep, panicked, epochKind>>
\* call in State::Limited (limit.rs 209): panic, nothing reaches the inner layer.
callLimited ==
    /\ state = "Limited"
    /\ panicked' = TRUE
    /\ UNCHANGED <<state, until_default, until_burst, rem, sleep, dispatched, firstCall,
                   epochKind, epochCalls>>

\* Service::call (limit.rs 164-211).
call ==
    /\ ~panicked
    /\ calls' = calls + 1
    /\ lastPoll' = "none"
    /\ (callReady \/ callLimited)
    /\ UNCHANGED <<rate_default, rate_burst, now, inner_always_ready>>

\* The clock advances by one tick; the calls that follow are no longer
\* "with no time elapsing" after the refill that opened the instant.
Tick ==
    /\ ~panicked
    /\ now < MaxTime
    /\ now' = now + 1
    /\ epochKind' = "none"
    /\ epochCalls' = 0
    /\ UNCHANGED <<rate_default, rate_burst, state, until_default, until_burst, rem, sleep,
                   lastPoll, panicked, calls, dispatched, firstCall, inner_always_ready>>

InitLimiterWith(rd, rb) ==
    /\ now = 0
    /\ new(0, rd, rb)
    /\ lastPoll = "none"
    /\ panicked = FALSE
    /\ calls = 0
    /\ dispatched = 0
    /\ firstCall = -1
    /\ inner_always_ready = TRUE
    /\ epochKind = "fresh"
    /\ epochCalls = 0

InitLimiter == \E rd \in Rates, rb \in Rates : InitLimiterWith(rd, rb)

\* ------------------------------------------------- the connection manager
\* hyper::Version values a caller may set on a request.
Versions == {"HTTP_11", "HTTP_2"}

\* A Request: the parts the stack reads or writes; the body travels with uri.
Request(version, target, hdrs) == [version |-> version, uri |-> target, headers |-> hdrs]

\* What the endpoint methods hand to the stack (client/mod.rs 100-102, 136-140):
\* a relative target, the version left at the builder's default or set by the caller.
CallerRequests ==
    {Request(v, "/my/agent", <<>>) : v \in Versions}
    \cup {Request(v, "/register", << <<"content-type", "application/json">> >>) :
              v \in Versions}

NoRequest == Request("none", "none", <<>>)

\* InnerClient::new (inner.rs 29-37): one session, established by connect().
InitInner ==
    /\ sender = 1
    /\ self_sender = 0
    /\ pc = "idle"
    /\ nsessions = 1
    /\ closed = {}
    /\ superseded = {}
    /\ result = "none"
    /\ delivered = 0
    /\ sends = 0
    /\ closedObs = 0
    /\ reconnects = 0
    /\ cancels = 0
    /\ attempts = 0
    /\ otherErr = FALSE
    /\ connectErr = FALSE
    /\ req = NoRequest
    /\ callerReq = NoRequest
    /\ sent = NoRequest

\* The sessions some owner still holds a handle to and whose transport is open.
LiveReferenced == {s \in ({sender, self_sender} \ {0}) : s \notin closed}

ConnClose_Deliver ==
    /\ \E s \in (1..nsessions) \ closed : closed' = closed \cup {s}
    /\ IF pc # "idle" /\ self_sender \in closed'
       THEN /\ result' = "err"
            /\ delivered' = delivered + 1
            /\ pc' = "idle"
            /\ self_sender' = 0
       ELSE UNCHANGED <<self_sender, pc, result, delivered>>
    /\ UNCHANGED <<sender, nsessions, superseded,
                   sends, closedObs, reconnects, cancels, attempts, otherErr, connectErr,
                   req, callerReq, sent>>
\* The background task of a session ends (inner.rs 203-214): the transport is
\* closed from then on; the task only logs.
ConnClose ==
    /\ \E s \in (1..nsessions) \ closed : closed' = closed \cup {s}
    /\ UNCHANGED <<sender, self_sender, pc, nsessions, superseded, result, delivered,
                   sends, closedObs, reconnects, cancels, attempts, otherErr, connectErr,
                   req, callerReq, sent>>

ForceVersion_Keep(r) == r
\* *req.version_mut() = hyper::Version::HTTP_2 (inner.rs 44).
ForceVersion(r) == [r EXCEPT !.version = "HTTP_2"]

\* InnerClient::call / request (inner.rs 128-130, 77-79) with Clone (82-89): the
\* future owns a clone of the manager; send_request forces the version and
\* starts at the top of its loop (40-49).
requestWith(r) ==
    /\ pc = "idle"
    /\ sends < MaxSends
    /\ sends' = sends + 1
    /\ self_sender' = sender
    /\ callerReq' = r
    /\ req' = ForceVersion(r)
    /\ pc' = "ready"
    /\ result' = "none"
    /\ delivered' = 0
    /\ closedObs' = 0
    /\ reconnects' = 0
    /\ cancels' = 0
    /\ attempts' = 0
    /\ otherErr' = FALSE
    /\ connectErr' = FALSE
    /\ sent' = NoRequest
    /\ UNCHANGED <<sender, nsessions, closed, superseded>>

request == \E r \in CallerRequests : requestWith(r)

\* The send returns r to its caller; the clone, and with it its handle, is dropped.
Return(r) ==
    /\ result' = r
    /\ delivered' = delivered + 1
    /\ pc' = "idle"
    /\ self_sender' = 0

\* self.sender.ready().await is Ok (inner.rs 50-51).
ReadyOk ==
    /\ pc = "ready"
    /\ self_sender \notin closed
    /\ pc' = "dispatch"
    /\ UNCHANGED <<sender, self_sender, nsessions, closed, superseded, result, delivered,
                   sends, closedObs, reconnects, cancels, attempts, otherErr, connectErr,
                   req, callerReq, sent>>

ReadyClosed_ReturnErr ==
    /\ pc = "ready"
    /\ self_sender \in closed
    /\ closedObs' = closedObs + 1
    /\ Return("err")
    /\ UNCHANGED <<sender, nsessions, closed, superseded, sends, reconnects, cancels,
                   attempts, otherErr, connectErr, req, callerReq, sent>>
\* ready() fails with is_closed() (inner.rs 52-56): reconnect.
ReadyClosed ==
    /\ pc = "ready"
    /\ self_sender \in closed
    /\ closedObs' = closedObs + 1
    /\ pc' = "connect"
    /\ UNCHANGED <<sender, self_sender, nsessions, closed, superseded, result, delivered,
                   sends, reconnects, cancels, attempts, otherErr, connectErr,
                   req, callerReq, sent>>

\* ready() fails with another error (inner.rs 57).
ReadyOther ==
    /\ pc = "ready"
    /\ otherErr' = TRUE
    /\ Return("err")
    /\ UNCHANGED <<sender, nsessions, closed, superseded, sends, closedObs, reconnects,
                   cancels, attempts, connectErr, req, callerReq, sent>>

\* self.sender = self.connector.connect().await?; continue (inner.rs 54-55, 68-69).
ConnectOk ==
    /\ pc = "connect"
    /\ nsessions < MaxSessions
    /\ nsessions' = nsessions + 1
    /\ self_sender' = nsessions + 1
    /\ superseded' = superseded \cup {self_sender}
    /\ reconnects' = reconnects + 1
    /\ pc' = "ready"
    /\ UNCHANGED <<sender, closed, result, delivered, sends, closedObs, cancels, attempts,
                   otherErr, connectErr, req, callerReq, sent>>

ConnectErr_Retry ==
    /\ pc = "connect"
    /\ connectErr' = TRUE
    /\ UNCHANGED <<sender, self_sender, pc, nsessions, closed, superseded, result,
                   delivered, sends, closedObs, reconnects, cancels, attempts, otherErr,
                   req, callerReq, sent>>
\* connect() fails (inner.rs 161-220): the ? returns the error from the send.
ConnectErr ==
    /\ pc = "connect"
    /\ connectErr' = TRUE
    /\ Return("err")
    /\ UNCHANGED <<sender, nsessions, closed, superseded, sends, closedObs, reconnects,
                   cancels, attempts, otherErr, req, callerReq, sent>>

Dispatch_Stripped ==
    /\ pc = "dispatch"
    /\ attempts' = attempts + 1
    /\ sent' = IF attempts >= 1 THEN [req EXCEPT !.headers = <<>>] ELSE req
\* self.sender.send_request(req.clone()): one dispatch attempt (inner.rs 60).
Dispatch ==
    /\ pc = "dispatch"
    /\ attempts' = attempts + 1
    /\ sent' = req

\* send_request(req.clone()) is Ok (inner.rs 60-61).
DispatchOk ==
    /\ Dispatch
    /\ self_sender \notin closed
    /\ Return("ok")
    /\ UNCHANGED <<sender, nsessions, closed, superseded, sends, closedObs, reconnects,
                   cancels, otherErr, connectErr, req, callerReq>>

DispatchCanceled_ReturnErr ==
    /\ Dispatch
    /\ cancels < MaxCancels
    /\ cancels' = cancels + 1
    /\ Return("err")
    /\ UNCHANGED <<sender, nsessions, closed, superseded, sends, closedObs, reconnects,
                   otherErr, connectErr, req, callerReq>>
DispatchCanceled_Deliver ==
    /\ Dispatch
    /\ cancels < MaxCancels
    /\ cancels' = cancels + 1
    /\ delivered' = delivered + 1
    /\ pc' = "ready"
    /\ UNCHANGED <<sender, self_sender, nsessions, closed, superseded, result,
                   sends, closedObs, reconnects, otherErr, connectErr, req, callerReq>>
DispatchCanceled_Reconnect ==
    /\ Dispatch
    /\ cancels < MaxCancels
    /\ cancels' = cancels + 1
    /\ pc' = "connect"
    /\ UNCHANGED <<sender, self_sender, nsessions, closed, superseded, result, delivered,
                   sends, closedObs, reconnects, otherErr, connectErr, req, callerReq>>
DispatchCanceled_Capped ==
    /\ Dispatch
    /\ cancels < MaxCancels
    /\ cancels' = cancels + 1
    /\ IF cancels >= 1
       THEN Return("err")
       ELSE pc' = "ready" /\ UNCHANGED <<self_sender, result, delivered>>
    /\ UNCHANGED <<sender, nsessions, closed, superseded,
                   sends, closedObs, reconnects, otherErr, connectErr, req, callerReq>>
\* the dispatch fails with is_canceled() (inner.rs 62-65): back to the top of the loop.
DispatchCanceled ==
    /\ Dispatch
    /\ cancels < MaxCancels
    /\ cancels' = cancels + 1
    /\ pc' = "ready"
    /\ UNCHANGED <<sender, self_sender, nsessions, closed, superseded, result, delivered,
                   sends, closedObs, reconnects, otherErr, connectErr, req, callerReq>>

DispatchClosed_NoReconnect ==
    /\ Dispatch
    /\ self_sender \in closed
    /\ closedObs' = closedObs + 1
    /\ pc' = "ready"
    /\ UNCHANGED <<sender, self_sender, nsessions, closed, superseded, result, delivered,
                   sends, reconnects, cancels, otherErr, connectErr, req, callerReq>>
\* the dispatch fails with is_closed() (inner.rs 66-70): reconnect.
DispatchClosed ==
    /\ Dispatch
    /\ self_sender \in closed
    /\ closedObs' = closedObs + 1
    /\ pc' = "connect"
    /\ UNCHANGED <<sender, self_sender, nsessions, closed, superseded, result, delivered,
                   sends, reconnects, cancels, otherErr, connectErr, req, callerReq>>

DispatchOther_Retry ==
    /\ Dispatch
    /\ otherErr' = TRUE
    /\ pc' = "ready"
    /\ UNCHANGED <<sender, self_sender, nsessions, closed, superseded, result, delivered,
                   sends, closedObs, reconnects, cancels, connectErr, req, callerReq>>
\* the dispatch fails with another error (inner.rs 71).
DispatchOther ==
    /\ Dispatch
    /\ otherErr' = TRUE
    /\ Return("err")
    /\ UNCHANGED <<sender, nsessions, closed, superseded, sends, closedObs, reconnects,
                   cancels, connectErr, req, callerReq>>

\* InnerClient::send_request (inner.rs 40-74), one await at a time.
send_request ==
    \/ ReadyOk
    \/ ReadyClosed
    \/ ReadyOther
    \/ ConnectOk
    \/ ConnectErr
    \/ DispatchOk
    \/ DispatchCanceled
    \/ DispatchClosed
    \/ DispatchOther

\* ------------------------------------------------------ the URL rewriter
\* A string is a sequence of one-character strings. A Uri is its three
\* optional parts: scheme and authority ("" when absent) and path-and-query
\* (<<>> when absent; hyper reports an absolute Uri without a path as "/").
Alphabet == {"/", "a", "b", "?"}

PathAndQueries ==
    {p \in UNION {[1..n -> Alphabet] : n \in 1..MaxPathLen} : p[1] = "/"}

Uri(scheme, authority, pq) == [scheme |-> scheme, authority |-> authority, pq |-> pq]

\* The Uris a caller can hold, by shape: absolute, path only, authority only.
UrisOf(scheme, authority) ==
    {Uri(scheme, authority, p) : p \in PathAndQueries}
        \cup {Uri("", "", p) : p \in PathAndQueries}
        \cup {Uri("", authority, <<>>)}

BaseUris == UrisOf("https", "host")
InputUris == UrisOf("http", "other")

\* The panic of .expect("Joining valid Uris ...") (base_url.rs 90-92).
PanicUri == Uri("panic", "panic", <<>>)

PathOf_Whole(pq) == pq
\* PathAndQuery::path(): the part before the first '?' (base_url.rs 77).
PathOf(pq) ==
    LET qs == {i \in 1..Len(pq) : pq[i] = "?"}
    IN IF qs = {} THEN pq
       ELSE SubSeq(pq, 1, (CHOOSE i \in qs : \A j \in qs : i <= j) - 1)

RECURSIVE TrimEndSlash(_)
TrimEndSlash_Keep(str) == str
\* str.trim_end_matches('/') (base_url.rs 77).
TrimEndSlash(str) ==
    IF str # <<>> /\ str[Len(str)] = "/"
    THEN TrimEndSlash(SubSeq(str, 1, Len(str) - 1))
    ELSE str

StartsWith_Never(str, prefix) == FALSE
\* str.starts_with(prefix) (base_url.rs 78).
StartsWith(str, prefix) ==
    /\ Len(prefix) <= Len(str)
    /\ SubSeq(str, 1, Len(prefix)) = prefix

\* Builder::build, i.e. Uri::from_parts, with the .expect (base_url.rs 90-92):
\* a scheme needs an authority and a path, an authority with a path needs a scheme.
BuildUri(scheme, authority, pq) ==
    IF scheme # "" /\ (authority = "" \/ pq = <<>>) THEN PanicUri
    ELSE IF scheme = "" /\ authority # "" /\ pq # <<>> THEN PanicUri
    ELSE Uri(scheme, authority, pq)

overwrite_base_url_BaseOrigin(base, input) ==
    LET scheme == IF input.scheme # "" THEN input.scheme ELSE base.scheme
        authority == IF input.scheme # "" \/ base.authority = ""
                     THEN input.authority ELSE base.authority
        base_path == TrimEndSlash(PathOf(base.pq))
        pq == IF base.pq # <<>>
              THEN IF input.pq # <<>>
                   THEN IF ~StartsWith(input.pq, base_path)
                        THEN base_path \o input.pq
                        ELSE input.pq
                   ELSE base.pq
              ELSE input.pq
    IN BuildUri(scheme, authority, pq)
overwrite_base_url_PrefixOnly(base, input) ==
    LET scheme == IF input.scheme # "" THEN input.scheme ELSE base.scheme
        authority == IF input.authority # "" THEN input.authority ELSE base.authority
        base_path == TrimEndSlash(PathOf(base.pq))
        pq == IF base.pq # <<>>
              THEN IF input.pq # <<>>
                   THEN IF ~StartsWith(input.pq, base_path)
                        THEN base_path \o input.pq
                        ELSE input.pq
                   ELSE IF base_path = <<>> THEN <<"/">> ELSE base_path
              ELSE input.pq
    IN BuildUri(scheme, authority, pq)
\* overwrite_base_url (base_url.rs 53-93).
overwrite_base_url(base, input) ==
    LET scheme == IF input.scheme # "" THEN input.scheme ELSE base.scheme
        authority == IF input.authority # "" THEN input.authority ELSE base.authority
        base_path == TrimEndSlash(PathOf(base.pq))
        pq == IF base.pq # <<>>
              THEN IF input.pq # <<>>
                   THEN IF ~StartsWith(input.pq, base_path)
                        THEN base_path \o input.pq
                        ELSE input.pq
                   ELSE base.pq
              ELSE input.pq
    IN BuildUri(scheme, authority, pq)

\* BaseUrl::call (base_url.rs 46-50).
BaseUrlCall ==
    /\ ~rewritten
    /\ uri' = overwrite_base_url(base_url, uri)
    /\ rewritten' = TRUE
    /\ UNCHANGED <<base_url, input_url>>

InitUrlWith(base, input) ==
    /\ base_url = base
    /\ input_url = input
    /\ uri = input
    /\ rewritten = FALSE

InitUrl == \E base \in BaseUris, input \in InputUris : InitUrlWith(base, input)

\* ---------------------------------------------------- the header injector
\* A HeaderMap is a multimap: every name carries its values in insertion order.
HeaderNames == {"user-agent", "accept"}
HeaderValues == {"v1", "v2"}

SeqsUpTo(S, n) == UNION {[1..k -> S] : k \in 0..n}

HeaderMaps == [HeaderNames -> SeqsUpTo(HeaderValues, MaxHeaderValues)]
ExtraHeadersLists == SeqsUpTo(HeaderNames \X HeaderValues, MaxExtraHeaders)

HeaderAppend_Insert(map, name, value) == [map EXCEPT ![name] = <<value>>]
\* HeaderMap::append: one more value for the name, the others stay.
HeaderAppend(map, name, value) == [map EXCEPT ![name] = Append(@, value)]

RECURSIVE HeaderExtend(_, _)
\* HeaderMap::extend over (HeaderName, HeaderValue) items (extra_headers.rs 54):
\* an append per item, in the order of the list.
HeaderExtend(map, list) ==
    IF list = <<>> THEN map
    ELSE HeaderExtend(HeaderAppend(map, list[1][1], list[1][2]), Tail(list))

\* ExtraHeaders::call (extra_headers.rs 53-56).
ExtraHeadersCall ==
    /\ ~injected
    /\ req_headers' = HeaderExtend(req_headers, extra_headers)
    /\ injected' = TRUE
    /\ UNCHANGED <<extra_headers, orig_headers>>

InitHeadersWith(map, list) ==
    /\ extra_headers = list
    /\ orig_headers = map
    /\ req_headers = map
    /\ injected = FALSE

InitHeaders == \E map \in HeaderMaps, list \in ExtraHeadersLists : InitHeadersWith(map, list)

\* The request parts of a run that exercises neither layer.
InitNoUrl == InitUrlWith(Uri("https", "host", <<"/">>), Uri("", "", <<"/">>))
InitNoHeaders == InitHeadersWith([n \in HeaderNames |-> <<>>], <<>>)

\* ------------------------------------------------------ the composed stack
\* WrappedClient::new (client/mod.rs 52-55): ServiceBuilder::new()
\* .layer(rate_limit).layer(auth).service(client); the first layer added is
\* the outermost, as the type RateLimitWithBurst<AddAuthorization<InnerClient>>
\* (client/mod.rs 36) says.
Stack == <<"RateLimitWithBurst", "AddAuthorization", "InnerClient">>

\* AddAuthorization::call: the bearer credential replaces any authorization header.
AddAuthorization(r) ==
    [r EXCEPT !.headers = SelectSeq(@, LAMBDA h : h[1] # "authorization")
                          \o << <<"authorization", "Bearer token">> >>]

InitStack == route = <<>>

InnerClient_poll_ready_Session == sender \notin closed
\* InnerClient::poll_ready (inner.rs 124-126): Poll::Ready(Ok(())) whatever
\* the session's state.
InnerClient_poll_ready == TRUE

\* self.inner.ready().await (client/mod.rs 104): poll_ready of the stack. The
\* layers below the limiter are always ready (inner.rs 124-126).
ClientReady ==
    /\ pc = "idle"
    /\ poll_readyWith(InnerClient_poll_ready)
    /\ UNCHANGED <<innerVars, stackVars>>

ClientCall_NoLimiter(r) ==
    /\ pc = "idle"
    /\ lastPoll = "ready"
    /\ ~panicked
    /\ UNCHANGED limVars
    /\ requestWith(AddAuthorization(r))
    /\ route' = Stack
\* .call(req) on the stack once ready() resolved (client/mod.rs 104): the
\* limiter's call, which hands the request to AddAuthorization, which hands it
\* to InnerClient::call; the returned future is awaited before the next call.
ClientCall(r) ==
    /\ pc = "idle"
    /\ lastPoll = "ready"
    /\ ~panicked
    /\ calls' = calls + 1
    /\ lastPoll' = "none"
    /\ callReady
    /\ UNCHANGED <<rate_default, rate_burst, now, inner_always_ready>>
    /\ requestWith(AddAuthorization(r))
    /\ route' = Stack

\* ------------------------------------------- construction of the limiter
\* The arguments a caller may hand to RateLimitWithBurstLayer::new: u64 counts
\* and Durations, zero included.
Configs == [num_default : 0..MaxCount, per_default : 0..MaxPeriod,
            num_burst : 0..MaxCount, per_burst : 0..MaxPeriod]

\* The outcome of a failed assert!: no Rate value exists.
PanicRate == Rate(-1, -1)

Rate_new_Unchecked(num, per) == Rate(num, per)
\* Rate::new (limit.rs 96-101): assert!(num > 0); assert!(per.as_nanos() > 0).
Rate_new(num, per) == IF num > 0 /\ per > 0 THEN Rate(num, per) ELSE PanicRate

\* Before construction no limiter exists.
NoLimiter ==
    /\ rate_default = Rate(0, 0)
    /\ rate_burst = Rate(0, 0)
    /\ state = "none"
    /\ until_default = 0
    /\ until_burst = 0
    /\ rem = 0
    /\ sleep = 0

\* RateLimitWithBurstLayer::new (limit.rs 18-31): the two Rate::new calls, then
\* the layer holding both rates.
RateLimitWithBurstLayer_new ==
    /\ layer = "none"
    /\ LET rd == Rate_new(cfg.num_default, cfg.per_default)
           rb == Rate_new(cfg.num_burst, cfg.per_burst)
       IN IF rd = PanicRate \/ rb = PanicRate
          THEN /\ layer' = "panic"
               /\ UNCHANGED <<rate_default, rate_burst>>
          ELSE /\ layer' = "layer"
               /\ rate_default' = rd
               /\ rate_burst' = rb
    /\ UNCHANGED <<cfg, state, until_default, until_burst, rem, sleep, now, lastPoll,
                   panicked, calls, dispatched, firstCall, inner_always_ready,
                   epochKind, epochCalls>>

\* Layer::layer (limit.rs 37-39) calling RateLimitWithBurst::new (65-80) with
\* the layer's rates.
RateLimitWithBurstLayer_layer ==
    /\ layer = "layer"
    /\ layer' = "built"
    /\ state' = "Ready"
    /\ until_default' = now
    /\ until_burst' = now
    /\ rem' = NewRem(rate_default, rate_burst)
    /\ sleep' = now
    /\ UNCHANGED <<cfg, rate_default, rate_burst, now, lastPoll, panicked, calls,
                   dispatched, firstCall, inner_always_ready, epochKind, epochCalls>>

InitConfig ==
    /\ cfg \in Configs
    /\ layer = "none"
    /\ NoLimiter
    /\ now = 0
    /\ lastPoll = "none"
    /\ panicked = FALSE
    /\ calls = 0
    /\ dispatched = 0
    /\ firstCall = -1
    /\ inner_always_ready = TRUE
    /\ epochKind = "fresh"
    /\ epochCalls = 0

\* The limiter of the other specifications: built from its own rates.
InitLayerBuilt ==
    /\ layer = "built"
    /\ cfg = [num_default |-> rate_default.num, per_default |-> rate_default.per,
              num_burst |-> rate_burst.num, per_burst |-> rate_burst.per]

\* ------------------------------------ construction of the connection manager
\* Connector::connect (inner.rs 161-220), one fallible step at a time:
\*   "host"      self.url.host().context("URI has no host")?           (168)
\*   "tcp"       TcpStream::connect(address).await?, resolution included (173)
\*   "name"      ServerName::try_from(..).expect("domain should be valid") (178)
\*   "tls"       self.inner.connect(..).await?                          (175-181)
\*   "handshake" Builder::new(..).handshake(io).await?                  (190-197)
\*   "ready"     sender.ready().await?                                  (217)
ConnectSteps == <<"host", "tcp", "name", "tls", "handshake", "ready">>

\* The steps that end in the ? operator.
ErrSteps == {"host", "tcp", "tls", "handshake", "ready"}

StepAfter(step) ==
    LET i == CHOOSE k \in 1..Len(ConnectSteps) : ConnectSteps[k] = step
    IN IF i = Len(ConnectSteps) THEN "done" ELSE ConnectSteps[i + 1]

\* InnerClient::new (inner.rs 29-31): Connector::new, then connect() is called.
InnerClient_new ==
    /\ manager = "none"
    /\ connStep = "idle"
    /\ connStep' = ConnectSteps[1]
    /\ connects' = connects + 1
    /\ UNCHANGED <<manager, failedAt, innerVars>>

\* A step of connect() succeeds; after the last one connect returns the
\* sender and new returns the manager holding it (inner.rs 219, 33-36).
ConnectStepOk ==
    /\ connStep \in ErrSteps \cup {"name"}
    /\ IF StepAfter(connStep) = "done"
       THEN /\ connStep' = "idle"
            /\ manager' = "built"
            /\ sender' = 1
            /\ nsessions' = 1
       ELSE /\ connStep' = StepAfter(connStep)
            /\ UNCHANGED <<manager, sender, nsessions>>
    /\ UNCHANGED <<connects, failedAt, self_sender, pc, closed, superseded, result,
                   delivered, sends, closedObs, reconnects, cancels, attempts, otherErr,
                   connectErr, callerReq, req, sent>>

ConnectStepErr_Retry ==
    /\ connStep \in ErrSteps
    /\ failedAt' = connStep
    /\ connStep' = ConnectSteps[1]
    /\ connects' = connects + 1
    /\ UNCHANGED <<manager, innerVars>>
\* A step of connect() fails: its ? returns the error from connect, and the ?
\* of inner.rs 31 returns it from new.
ConnectStepErr ==
    /\ connStep \in ErrSteps
    /\ failedAt' = connStep
    /\ connStep' = "idle"
    /\ manager' = "err"
    /\ UNCHANGED <<connects, innerVars>>

\* The host is not a server name rustls accepts: the .expect panics (inner.rs 178).
ConnectNamePanic ==
    /\ connStep = "name"
    /\ failedAt' = connStep
    /\ connStep' = "idle"
    /\ manager' = "panic"
    /\ UNCHANGED <<connects, innerVars>>

\* Before InnerClient::new no manager and no session exist.
InitNew ==
    /\ manager = "none"
    /\ connStep = "idle"
    /\ connects = 0
    /\ failedAt = "none"
    /\ sender = 0
    /\ self_sender = 0
    /\ pc = "idle"
    /\ nsessions = 0
    /\ closed = {}
    /\ superseded = {}
    /\ result = "none"
    /\ delivered = 0
    /\ sends = 0
    /\ closedObs = 0
    /\ reconnects = 0
    /\ cancels = 0
    /\ attempts = 0
    /\ otherErr = FALSE
    /\ connectErr = FALSE
    /\ req = NoRequest
    /\ callerReq = NoRequest
    /\ sent = NoRequest

\* The manager of the other specifications: InnerClient::new has returned Ok.
InitManagerBuilt ==
    /\ manager = "built"
    /\ connStep = "idle"
    /\ connects = 1
    /\ failedAt = "none"

\* ------------------------------------------------------- specifications
\* The limiter alone, over every pair of rates within the bounds.
InitL == InitLimiter /\ InitInner /\ InitStack /\ InitNoUrl /\ InitNoHeaders
         /\ InitLayerBuilt /\ InitManagerBuilt
NextL == (poll_ready \/ call \/ Tick)
         /\ UNCHANGED <<innerVars, stackVars, urlVars, hdrVars, cfgVars, newVars>>
SpecLimiter == InitL /\ [][NextL]_vars

\* The limiter under the scheduling the runtime gives it: the tokio clock
\* advances, and a caller waiting in ready() is polled again when the armed
\* Sleep fires, its inner layer being ready (inner.rs 124-126).
TimePasses ==
    Tick /\ UNCHANGED <<innerVars, stackVars, urlVars, hdrVars, cfgVars, newVars>>
ReadyPoll ==
    poll_readyWith(TRUE)
        /\ UNCHANGED <<innerVars, stackVars, urlVars, hdrVars, cfgVars, newVars>>
\* ... over the rates of the repository's test (1 per 100 ms, 2 per 400 ms,
\* limit.rs 235-240) and three more pairs.
InitLF ==
    /\ \E rd \in {Rate(1, 1), Rate(MaxCount, 2)},
          rb \in {Rate(2, 4), Rate(1, 3)} : InitLimiterWith(rd, rb)
    /\ InitInner /\ InitStack /\ InitNoUrl /\ InitNoHeaders
    /\ InitLayerBuilt /\ InitManagerBuilt
SpecLimiterFair ==
    InitLF /\ [][NextL]_vars /\ WF_vars(TimePasses) /\ WF_vars(ReadyPoll)

\* The connection manager alone, sends issued one after the other.
InitI == InitLimiterWith(Rate(1, 1), Rate(2, 4)) /\ InitInner /\ InitStack
         /\ InitNoUrl /\ InitNoHeaders /\ InitLayerBuilt /\ InitManagerBuilt
NextI == (request \/ send_request \/ ConnClose)
         /\ UNCHANGED <<limVars, stackVars, urlVars, hdrVars, cfgVars, newVars>>
SpecInner == InitI /\ [][NextI]_vars

\* The connection manager with the future of a send being driven: the caller
\* awaits it (client/mod.rs 104), so a send that can take a step takes one.
Send == send_request /\ UNCHANGED <<limVars, stackVars, urlVars, hdrVars, cfgVars, newVars>>
SpecInnerFair == InitI /\ [][NextI]_vars /\ WF_vars(Send)

\* The stack as WrappedClient composes it, driven by the endpoint methods.
InitS == InitLimiterWith(Rate(1, 1), Rate(2, 4)) /\ InitInner /\ InitStack
         /\ InitNoUrl /\ InitNoHeaders /\ InitLayerBuilt /\ InitManagerBuilt
NextS ==
    \/ ClientReady /\ UNCHANGED <<urlVars, hdrVars, cfgVars, newVars>>
    \/ \E r \in CallerRequests :
          ClientCall(r) /\ UNCHANGED <<urlVars, hdrVars, cfgVars, newVars>>
    \/ Tick /\ UNCHANGED <<innerVars, stackVars, urlVars, hdrVars, cfgVars, newVars>>
    \/ (send_request \/ ConnClose)
          /\ UNCHANGED <<limVars, stackVars, urlVars, hdrVars, cfgVars, newVars>>
SpecStack == InitS /\ [][NextS]_vars

\* The same stack during a burst: calls issued and sends driven with no time
\* elapsing, so that every network attempt falls within one refill period.
NextB ==
    \/ ClientReady /\ UNCHANGED <<urlVars, hdrVars, cfgVars, newVars>>
    \/ \E r \in CallerRequests :
          ClientCall(r) /\ UNCHANGED <<urlVars, hdrVars, cfgVars, newVars>>
    \/ (send_request \/ ConnClose)
          /\ UNCHANGED <<limVars, stackVars, urlVars, hdrVars, cfgVars, newVars>>
SpecBurst == InitS /\ [][NextB]_vars

\* overwrite_base_url over every base and every incoming target within the bounds.
InitU == InitLimiterWith(Rate(1, 1), Rate(2, 4)) /\ InitInner /\ InitStack
         /\ InitUrl /\ InitNoHeaders /\ InitLayerBuilt /\ InitManagerBuilt
NextU == BaseUrlCall
         /\ UNCHANGED <<limVars, innerVars, stackVars, hdrVars, cfgVars, newVars>>
SpecUrl == InitU /\ [][NextU]_vars

\* ExtraHeaders::call over every header map and configured list within the bounds.
InitH == InitLimiterWith(Rate(1, 1), Rate(2, 4)) /\ InitInner /\ InitStack
         /\ InitNoUrl /\ InitHeaders /\ InitLayerBuilt /\ InitManagerBuilt
NextH == ExtraHeadersCall
         /\ UNCHANGED <<limVars, innerVars, stackVars, urlVars, cfgVars, newVars>>
SpecHeaders == InitH /\ [][NextH]_vars

\* The limiter from its construction out of unvalidated arguments, then driven
\* by its caller at the instant of construction.
InitC == InitConfig /\ InitInner /\ InitStack /\ InitNoUrl /\ InitNoHeaders
         /\ InitManagerBuilt
NextC ==
    \/ (RateLimitWithBurstLayer_new \/ RateLimitWithBurstLayer_layer)
          /\ UNCHANGED <<innerVars, stackVars, urlVars, hdrVars, newVars>>
    \/ /\ layer = "built"
       /\ (poll_ready \/ call)
       /\ UNCHANGED <<innerVars, stackVars, urlVars, hdrVars, cfgVars, newVars>>
SpecConfig == InitC /\ [][NextC]_vars

\* The connection manager from InnerClient::new on, then sends issued on it.
InitN == InitLimiterWith(Rate(1, 1), Rate(2, 4)) /\ InitNew /\ InitStack
         /\ InitNoUrl /\ InitNoHeaders /\ InitLayerBuilt
NextN ==
    \/ (InnerClient_new \/ ConnectStepOk \/ ConnectStepErr \/ ConnectNamePanic)
          /\ UNCHANGED <<limVars, stackVars, urlVars, hdrVars, cfgVars>>
    \/ /\ manager = "built"
       /\ (request \/ send_request \/ ConnClose)
       /\ UNCHANGED <<limVars, stackVars, urlVars, hdrVars, cfgVars, newVars>>
SpecNew == InitN /\ [][NextN]_vars

\* --------------------------------------------------------------- claims
\* C1: a freshly constructed limiter whose inner layer is always ready admits
\* exactly defaultCount + burstCount calls with no time elapsing: as long as
\* fewer were dispatched the limiter is Ready and a readiness check reports
\* ready, and once that many were dispatched it is Limited and the readiness
\* check reports not-ready.
C1_FreshAdmitsCeiling ==
    (epochKind = "fresh" /\ inner_always_ready) =>
        /\ epochCalls <= Ceiling
        /\ (state = "Limited") <=> (epochCalls = Ceiling)
        /\ (lastPoll = "ready") => (epochCalls < Ceiling)
        /\ (lastPoll = "pending") => (epochCalls = Ceiling)

C1_Witness ==
    /\ epochKind = "fresh"
    /\ inner_always_ready
    /\ lastPoll = "pending"
    /\ epochCalls = Ceiling
    /\ rate_default.num = 1
    /\ rate_burst.num = 2

\* C2: after an exhaustion, when the readiness check refilled the default
\* pool only, the limiter admits exactly defaultCount further calls at that
\* instant and then reports not-ready again.
C2_DefaultRefillAdmitsDefaultCount ==
    (epochKind = "default" /\ inner_always_ready) =>
        /\ epochCalls <= rate_default.num
        /\ (lastPoll = "pending") => (epochCalls = rate_default.num)

\* C3: the calls dispatched within elapsed time T of the first call number at
\* most (defaultCount + burstCount) + defaultCount * floor(T / defaultPeriod)
\* + burstCount * floor(T / burstPeriod).
C3_CallsWithinTokensGranted ==
    (firstCall >= 0) =>
        dispatched <= Ceiling
                      + rate_default.num * ((now - firstCall) \div rate_default.per)
                      + rate_burst.num * ((now - firstCall) \div rate_burst.per)

\* C4 as stated: a call that is not immediately preceded by a readiness check
\* that reported ready panics and dispatches nothing to the inner layer.
C4_CallWithoutReadyPanics ==
    [][(calls' = calls + 1 /\ lastPoll # "ready")
          => (panicked' /\ dispatched' = dispatched)]_vars

\* C4 as amended: a call made while the limiter is Limited panics and
\* dispatches nothing to the inner layer; a call made while it is Ready is
\* dispatched without a panic, whether or not a readiness check preceded it.
C4_CallWhenLimitedPanics ==
    [][(calls' = calls + 1)
          => /\ (state = "Limited") => (panicked' /\ dispatched' = dispatched)
             /\ (state = "Ready") => (~panicked' /\ dispatched' = dispatched + 1)]_vars

C4_Witness == panicked /\ state = "Limited" /\ calls = dispatched + 1

\* C8: in every reachable limiter state 0 <= remaining <= defaultCount +
\* burstCount, also after a refill in which both pools were due at once.
C8_RemWithinCeiling == rem >= 0 /\ rem <= Ceiling

C8_Witness == epochKind = "both" /\ epochCalls = 0 /\ rem = Ceiling /\ state = "Ready"

\* C9: after an exhaustion, when the readiness check refilled both pools, the
\* limiter admits exactly defaultCount + burstCount calls at that instant and
\* then reports not-ready again.
C9_BothRefillAdmitsCeiling ==
    (epochKind = "both") =>
        /\ epochCalls <= Ceiling
        /\ (state = "Limited") <=> (epochCalls = Ceiling)
        /\ (lastPoll = "ready") => (epochCalls < Ceiling)
        /\ (lastPoll = "pending" /\ inner_always_ready) => (epochCalls = Ceiling)

C9_Witness ==
    /\ epochKind = "both"
    /\ inner_always_ready
    /\ lastPoll = "pending"
    /\ epochCalls = Ceiling
    /\ now > 0

\* C10: every call dispatched to the inner layer leaves remaining exactly 1
\* below its value after the refill applied in that call, the call that
\* moves the limiter to Limited included.
C10_DispatchDecrementsRem ==
    [][(dispatched' = dispatched + 1)
          => (rem' = Refilled(now, until_default, until_burst, rem) - 1)]_vars

\* C11: whenever the limiter is Limited, the sleep is armed for exactly the
\* earlier of the two refill deadlines as they currently stand.
C11_LimitedSleepIsMinDeadline ==
    (state = "Limited") =>
        /\ sleep <= until_default
        /\ sleep <= until_burst
        /\ sleep \in {until_default, until_burst}

C11_Witness ==
    /\ state = "Limited"
    /\ until_burst < until_default
    /\ sleep = until_burst
    /\ now > 0

\* C5: within one send that ends in success, the sessions established equal
\* the closed-transport observations (at the readiness poll or at dispatch),
\* and at no point are two live sessions referenced at the same time.
C5_ReconnectPerClosure ==
    /\ Cardinality(LiveReferenced) <= 1
    /\ (pc = "idle" /\ result = "ok") => (reconnects = closedObs /\ delivered = 1)

C5_Witness ==
    /\ pc = "idle"
    /\ result = "ok"
    /\ closedObs = 2
    /\ reconnects = 2
    /\ attempts = 2

\* C6: every send starts from the manager's current handle, and that is never
\* a handle that an earlier send replaced after observing it closed.
C6_SendStartsFromReplacement ==
    [][(pc = "idle" /\ pc' = "ready") => (self_sender' \notin superseded)]_vars

\* C7: a send whose only failures were k stream cancellations returns
\* success: one outcome is delivered, it is the response and not an error, and
\* k + 1 dispatch attempts were made.
C7_RetryOnCancel ==
    (pc = "idle" /\ sends > 0 /\ closedObs = 0 /\ ~otherErr) =>
        /\ result = "ok"
        /\ delivered = 1
        /\ attempts = cancels + 1

C7_Witness ==
    /\ pc = "idle"
    /\ result = "ok"
    /\ delivered = 1
    /\ closedObs = 0
    /\ cancels = 2
    /\ attempts = 3

\* C12: a dispatch failure that is neither a cancellation nor a closed
\* transport ends the send: the error is the one outcome returned, and the
\* send makes no further step.
C12_OtherErrorIsTerminal ==
    otherErr => (pc = "idle" /\ result = "err" /\ delivered = 1)

C12_Witness ==
    /\ otherErr
    /\ pc = "idle"
    /\ result = "err"
    /\ attempts = 2
    /\ cancels = 1

\* C13 as stated: a closed transport never makes a send return an error: a
\* send that met nothing but closed transports and cancellations returns
\* success.
C13_ClosureNeverAnError ==
    (pc = "idle" /\ sends > 0 /\ ~otherErr) => (result = "ok")

\* C13 as amended: every closed-transport observation is answered by a
\* reconnect attempt and never by an error of its own; a send returns an error
\* only for a failed reconnect or for a failure that is neither closed nor
\* canceled, so with every reconnect succeeding the closure stays invisible.
C13_ClosureRecoveredUnlessConnectFails ==
    /\ (pc = "idle" /\ result = "err") => (otherErr \/ connectErr)
    /\ connectErr => (pc = "idle" /\ result = "err" /\ closedObs = reconnects + 1)
    /\ (pc = "connect") => (closedObs = reconnects + 1)
    /\ (pc \in {"ready", "dispatch"}) => (closedObs = reconnects)

C13_Witness ==
    /\ pc = "idle"
    /\ result = "ok"
    /\ closedObs = 1
    /\ reconnects = 1
    /\ attempts = 2
    /\ cancels = 0

C15_DispatchedVersionIsHttp2 ==
    (sent # NoRequest) => (sent.version = "HTTP_2" /\ sent.uri = callerReq.uri)

C15_Witness ==
    /\ sent # NoRequest
    /\ callerReq.version = "HTTP_11"
    /\ attempts = 3
    /\ cancels = 1
    /\ reconnects = 1

\* C16: every request that reaches the connection manager was rewritten by
\* the URL rewriter first, then had its headers injected, then passed the
\* rate limiter: URL rewriting outermost, header injection next, the limiter
\* next, the transport innermost.
C16_ClaimedOrder == <<"BaseUrl", "AddAuthorization", "RateLimitWithBurst", "InnerClient">>

C16_StackOrder == (route # <<>>) => (route = C16_ClaimedOrder)

\* str without its trailing slashes: everything up to its last other character.
C17_Stripped(str) ==
    LET keep == {i \in 0..Len(str) : i = 0 \/ str[i] # "/"}
    IN SubSeq(str, 1, CHOOSE i \in keep : \A j \in keep : j <= i)

\* The prefix the base defines: its path, trailing slashes stripped.
C17_Prefix == C17_Stripped(PathOf(base_url.pq))

\* C17: for an absolute base with a path prefix and a relative target whose
\* path+query does not start with the prefix, the rewritten target is the base
\* scheme and authority followed by prefix + path+query: the query is kept and
\* the target's own leading slash is the one slash at the join.
C17_PrefixJoined ==
    (/\ rewritten
     /\ base_url.scheme # ""
     /\ input_url.scheme = ""
     /\ input_url.authority = ""
     /\ C17_Prefix # <<>>
     /\ ~StartsWith(input_url.pq, C17_Prefix))
    => /\ uri = Uri(base_url.scheme, base_url.authority, C17_Prefix \o input_url.pq)
       /\ uri.pq[Len(C17_Prefix)] # "/"
       /\ uri.pq[Len(C17_Prefix) + 1] = "/"
       /\ (Len(input_url.pq) > 1 /\ input_url.pq[2] # "/")
             => (uri.pq[Len(C17_Prefix) + 2] # "/")

C17_Witness ==
    /\ rewritten
    /\ base_url = Uri("https", "host", <<"/", "a", "/">>)
    /\ input_url = Uri("", "", <<"/", "b", "?", "a">>)
    /\ uri = Uri("https", "host", <<"/", "a", "/", "b", "?", "a">>)

\* C18: rewriting is idempotent: rewriting a rewritten target again leaves it
\* as it is, and a target that already is base + relative comes out with the
\* prefix once.
C18_RewriteIdempotent ==
    (rewritten /\ uri # PanicUri) =>
        /\ overwrite_base_url(base_url, uri) = uri
        /\ (base_url.scheme # "" /\ input_url.scheme = "" /\ input_url.authority = "")
              => LET joined == Uri(base_url.scheme, base_url.authority,
                                   C17_Prefix \o input_url.pq)
                 IN overwrite_base_url(base_url, joined) = joined

C18_Witness ==
    /\ rewritten
    /\ base_url.pq = <<"/", "a">>
    /\ input_url.pq = <<"/", "b">>
    /\ uri.pq = <<"/", "a", "/", "b">>
    /\ overwrite_base_url(base_url, uri).pq = <<"/", "a", "/", "b">>

\* The path of pq is empty or slashes only: every character before the first
\* '?' is a slash.
C19_RootOnly(pq) ==
    \A i \in 1..Len(pq) : (\A j \in 1..i : pq[j] # "?") => (pq[i] = "/")

\* C19: when the base has no path or only the root path, the rewritten target
\* of a relative target is the base scheme and authority followed by the
\* incoming path+query verbatim.
C19_NoPrefixVerbatim ==
    (/\ rewritten
     /\ base_url.scheme # ""
     /\ C19_RootOnly(base_url.pq)
     /\ input_url.scheme = ""
     /\ input_url.authority = "")
    => (uri = Uri(base_url.scheme, base_url.authority, input_url.pq))

C19_Witness ==
    /\ rewritten
    /\ base_url = Uri("https", "host", <<"/">>)
    /\ input_url = Uri("", "", <<"/", "a", "/", "b">>)
    /\ uri = Uri("https", "host", <<"/", "a", "/", "b">>)

\* C20: after injection every header name carries the values it carried
\* before, unchanged and in their order, followed by the values configured for
\* that name in configured order: a name already present gains instances and
\* loses none.
C20_InjectionAdditive ==
    injected =>
        \A n \in HeaderNames :
            LET added == SelectSeq(extra_headers, LAMBDA h : h[1] = n)
                had == Len(orig_headers[n])
            IN /\ Len(req_headers[n]) = had + Len(added)
               /\ SubSeq(req_headers[n], 1, had) = orig_headers[n]
               /\ \A i \in 1..Len(added) : req_headers[n][had + i] = added[i][2]

C20_Witness ==
    /\ injected
    /\ orig_headers["accept"] = <<"v1">>
    /\ extra_headers = << <<"accept", "v2">>, <<"accept", "v1">> >>
    /\ req_headers["accept"] = <<"v1", "v2", "v1">>

\* C21: constructing a Rate with count 0 or period 0 panics and no limiter is
\* produced; a limiter that exists holds two Rates with count > 0 and
\* period > 0, which are the arguments it was configured with.
C21_RatesValidated ==
    LET zero == \/ cfg.num_default = 0
                \/ cfg.per_default = 0
                \/ cfg.num_burst = 0
                \/ cfg.per_burst = 0
    IN /\ (layer # "none") => (layer = "panic" <=> zero)
       /\ (layer = "panic") => NoLimiter
       /\ (layer \in {"layer", "built"}) =>
              /\ rate_default = Rate(cfg.num_default, cfg.per_default)
              /\ rate_burst = Rate(cfg.num_burst, cfg.per_burst)
              /\ rate_default.num > 0 /\ rate_default.per > 0
              /\ rate_burst.num > 0 /\ rate_burst.per > 0
       /\ (state # "none") => (layer = "built")

C21_Witness ==
    /\ layer = "panic"
    /\ cfg.num_default > 0
    /\ cfg.per_default > 0
    /\ cfg.num_burst > 0
    /\ cfg.per_burst = 0
    /\ state = "none"

\* C22: when a step of establishing the initial session fails (the host, the
\* TCP connect with its name resolution, TLS, the HTTP/2 handshake or the
\* first readiness wait), InnerClient::new returns that error: connect() was
\* called once and not again, and no manager, session or send exists.
C22_ConstructionFailsWithoutRetry ==
    /\ connects <= 1
    /\ (failedAt \in ErrSteps) =>
           /\ manager = "err"
           /\ connStep = "idle"
           /\ connects = 1
           /\ sender = 0
           /\ nsessions = 0
           /\ sends = 0
    /\ (manager = "built") => (failedAt = "none" /\ connects = 1)
    /\ (manager # "built") => (sender = 0 /\ nsessions = 0 /\ sends = 0)

C22_Witness ==
    /\ manager = "err"
    /\ failedAt = "handshake"
    /\ connects = 1
    /\ nsessions = 0

\* A step that applies the two refill checks: the readiness check that leaves
\* Limited, or a call that is dispatched.
C23_RefillStep ==
    \/ (state = "Limited" /\ state' = "Ready")
    \/ dispatched' = dispatched + 1

\* C23 as stated: whenever a pool is refilled, in the readiness check or in
\* call, its new deadline is the old deadline plus that pool's period, however
\* long after the old deadline the refill is observed.
C23_DeadlineIsOldPlusPeriod ==
    [][C23_RefillStep =>
          /\ (now >= until_default) => (until_default' = until_default + rate_default.per)
          /\ (now >= until_burst) => (until_burst' = until_burst + rate_burst.per)]_vars

\* C23 as amended: whenever a pool is refilled, in the readiness check or in
\* call, its new deadline is the time of that refill plus the pool's period,
\* so a refill observed late moves the deadline later by the same delay; a
\* deadline changes in no other step, and a pool that is not due keeps its own.
C23_DeadlineIsNowPlusPeriod ==
    [][/\ C23_RefillStep =>
            /\ (now >= until_default) => (until_default' = now + rate_default.per)
            /\ (now < until_default) => (until_default' = until_default)
            /\ (now >= until_burst) => (until_burst' = now + rate_burst.per)
            /\ (now < until_burst) => (until_burst' = until_burst)
       /\ (until_default' # until_default \/ until_burst' # until_burst)
             => C23_RefillStep]_vars

C23_Witness ==
    /\ state = "Ready"
    /\ epochKind = "default"
    /\ epochCalls = 0
    /\ until_default = now + rate_default.per
    /\ until_default % rate_default.per # 0

C26_CancelKeepsSession ==
    [][/\ (cancels' = cancels + 1) =>
             /\ self_sender' = self_sender
             /\ nsessions' = nsessions
             /\ reconnects' = reconnects
             /\ pc' = "ready"
       /\ (nsessions' # nsessions \/ (self_sender' # self_sender /\ pc' # "idle" /\ pc # "idle"))
             => /\ pc = "connect"
                /\ self_sender \in closed
                /\ closedObs = reconnects + 1
                /\ self_sender' = nsessions']_vars

C26_Witness ==
    /\ pc = "dispatch"
    /\ cancels = 2
    /\ attempts = 2
    /\ closedObs = 0
    /\ nsessions = 1
    /\ self_sender = 1

\* C29: when connect() fails while a send recovers from a closed transport,
\* the send ends in that very step with the error as its one outcome; no
\* session was established by the failed connect, and the send makes no
\* further reconnect or dispatch attempt.
C29_FailedReconnectEndsSend ==
    [][/\ (~connectErr /\ connectErr') =>
             /\ pc = "connect"
             /\ pc' = "idle"
             /\ result' = "err"
             /\ delivered' = 1
             /\ UNCHANGED <<attempts, reconnects, nsessions, sender>>
       /\ (connectErr /\ sends' = sends) =>
             UNCHANGED <<pc, result, delivered, attempts, reconnects, closedObs,
                         nsessions, self_sender>>]_vars

C29_Witness ==
    /\ connectErr
    /\ pc = "idle"
    /\ result = "err"
    /\ closedObs = 2
    /\ reconnects = 1
    /\ attempts = 1

\* C27: a readiness check made while the limiter is Limited and the armed
\* wake time is still ahead reports not-ready and changes nothing: mode,
\* remaining, both deadlines and the wake time stay, nothing is dispatched and
\* the inner layer's readiness is not taken into account.
C27_EarlyPollChangesNothing ==
    [][(state = "Limited" /\ now < sleep /\ calls' = calls /\ now' = now) =>
          /\ lastPoll' = "pending"
          /\ UNCHANGED <<state, rem, until_default, until_burst, sleep, dispatched,
                         inner_always_ready, rate_default, rate_burst>>]_vars

C27_Witness ==
    /\ state = "Limited"
    /\ now < sleep
    /\ now > 0
    /\ lastPoll = "pending"
    /\ inner_always_ready
    /\ calls = Ceiling + 1

\* C28: a Limited limiter recovers. A readiness check made once the wake time
\* has passed refills at least one pool, advances that pool's deadline beyond
\* now, sets Ready and reports what the inner layer reports, ready when it is
\* ready; and with time passing and the waiting caller polled again, a limiter
\* that is Limited does not stay so: it becomes Ready (unless a call made
\* against the contract panics first).
C28_LimitedRecovers ==
    /\ [][(state = "Limited" /\ now >= sleep /\ calls' = calls /\ now' = now) =>
             /\ state' = "Ready"
             /\ rem' > rem
             /\ (until_default' # until_default \/ until_burst' # until_burst)
             /\ until_default' > now
             /\ until_burst' > now
             /\ (inner_always_ready /\ inner_always_ready') => (lastPoll' = "ready")
             /\ (inner_always_ready /\ ~inner_always_ready') => (lastPoll' = "pending")]_vars
    /\ ((state = "Limited" /\ sleep <= MaxTime) ~> (state = "Ready" \/ panicked))

C28_Witness ==
    /\ state = "Ready"
    /\ lastPoll = "ready"
    /\ epochKind = "burst"
    /\ epochCalls = 0
    /\ rem > 1
    /\ now = until_burst - rate_burst.per

\* C30: a send whose failures are finitely many returns: with the future
\* driven, every send that was started ends with one outcome, the response or
\* an error, and an error only for a failure that is neither closed nor
\* canceled or for a failed reconnect. There is no cap on attempts: whatever
\* the number of cancellations so far, one more cancellation leads to one more
\* retry and to no outcome.
C30_SendTerminatesNoCap ==
    /\ ((pc # "idle") ~> (pc = "idle" /\ delivered = 1 /\ result \in {"ok", "err"}))
    /\ [][(pc = "idle" /\ result' = "err") => (otherErr' \/ connectErr')]_vars
    /\ [][(cancels' = cancels + 1) =>
             /\ pc' = "ready"
             /\ result' = "none"
             /\ delivered' = 0
             /\ attempts' = attempts + 1]_vars

C30_Witness ==
    /\ pc = "idle"
    /\ result = "ok"
    /\ cancels = MaxCancels
    /\ closedObs = 2
    /\ reconnects = 2
    /\ attempts = MaxCancels + 3

\* C31: in each refill step a pool is credited and its deadline moved if and
\* only if now has reached that pool's own deadline: a pool that is not due
\* keeps its deadline and adds nothing, so with one pool due remaining grows by
\* that pool's count only, capped at the combined ceiling.
C31_PoolsRefillIndependently ==
    [][C23_RefillStep =>
          LET dueDefault == now >= until_default
              dueBurst == now >= until_burst
              afterDefault == IF dueDefault
                              THEN Min(rem + rate_default.num, Ceiling) ELSE rem
              afterBoth == IF dueBurst
                           THEN Min(afterDefault + rate_burst.num, Ceiling)
                           ELSE afterDefault
          IN /\ (until_default' # until_default) <=> dueDefault
             /\ (until_burst' # until_burst) <=> dueBurst
             /\ IF calls' = calls
                THEN rem' = afterBoth
                ELSE rem' = IF afterBoth > 1 THEN afterBoth - 1 ELSE afterBoth]_vars

C31_Witness ==
    /\ state = "Ready"
    /\ epochKind = "burst"
    /\ epochCalls = 0
    /\ rem = 1 + rate_burst.num
    /\ rem < Ceiling
    /\ until_burst = now + rate_burst.per
    /\ until_default > now
    /\ until_default < now + rate_default.per

\* C32: every call made while the limiter is Ready is handed to the inner
\* layer exactly once, the call that moves the limiter to Limited included:
\* the dispatches number the calls, less the one call that panicked.
C32_ReadyCallForwardedOnce ==
    /\ calls = dispatched + (IF panicked THEN 1 ELSE 0)
    /\ (state = "Limited") => (dispatched >= 1)
    /\ (epochKind = "fresh") => (dispatched = epochCalls)

C32_Witness ==
    /\ state = "Limited"
    /\ ~panicked
    /\ now = 0
    /\ calls = Ceiling
    /\ dispatched = Ceiling
    /\ lastPoll = "none"

\* C34: a readiness check made after the wake time over an inner layer that is
\* not ready reports not-ready although it has refilled and set Ready; the
\* call that follows this not-ready result is dispatched without a panic.
C34_PendingAfterRefillAdmitsCall ==
    [][/\ (/\ state = "Limited"
           /\ now >= sleep
           /\ calls' = calls
           /\ now' = now
           /\ lastPoll' = "pending") =>
              /\ state' = "Ready"
              /\ rem' > rem
              /\ ~inner_always_ready'
       /\ (/\ lastPoll = "pending"
           /\ state = "Ready"
           /\ calls' = calls + 1) =>
              /\ ~panicked'
              /\ dispatched' = dispatched + 1]_vars

C34_Witness ==
    /\ state = "Ready"
    /\ lastPoll = "none"
    /\ ~inner_always_ready
    /\ epochKind = "default"
    /\ epochCalls = 1
    /\ dispatched = Ceiling + 1
    /\ calls = dispatched

\* C33: the background task of a session may end at any point of a send; its
\* end changes nothing but the transport's state (no outcome is delivered and
\* the send stays where it is), and it is seen only afterwards, as a closed
\* result of the readiness poll or of the dispatch on that session, which the
\* send answers with a reconnect.
C33_TaskEndSeenOnlyAsClosed ==
    [][/\ (closed' # closed) =>
              UNCHANGED <<sender, self_sender, pc, result, delivered, closedObs,
                          reconnects, attempts, sent, req>>
       /\ (closedObs' = closedObs + 1) =>
              /\ pc \in {"ready", "dispatch"}
              /\ self_sender \in closed
              /\ closed' = closed
              /\ pc' = "connect"
              /\ UNCHANGED <<result, delivered>>]_vars

C33_Witness ==
    /\ pc = "connect"
    /\ self_sender \in closed
    /\ closedObs = 1
    /\ attempts = 1
    /\ delivered = 0
    /\ result = "none"
    /\ ~otherErr
    /\ cancels = 0

\* C35: the connection manager's readiness check reports ready in every
\* session state, a closed transport included, so the readiness of the stack
\* is the limiter's: the stack reports not-ready only while the limiter is
\* Limited.
C35_StackReadinessIsLimiters ==
    /\ InnerClient_poll_ready
    /\ inner_always_ready
    /\ (lastPoll = "pending") => (state = "Limited" /\ now < sleep)

C35_Witness ==
    /\ lastPoll = "ready"
    /\ state = "Ready"
    /\ pc = "idle"
    /\ sender \in closed
    /\ LiveReferenced = {}

\* C38: every attempt of one send dispatches the caller's request with nothing
\* but the version changed: target and headers of each retry, after a
\* cancellation or a reconnect, are those of the first attempt.
C38_RetriesResendSameRequest ==
    [][(attempts' = attempts + 1) =>
          /\ sent' = [callerReq EXCEPT !.version = "HTTP_2"]
          /\ (attempts >= 1) => (sent' = sent)
          /\ callerReq' = callerReq]_vars

C38_Witness ==
    /\ attempts = 3
    /\ cancels = 1
    /\ reconnects = 1
    /\ callerReq.uri = "/register"
    /\ callerReq.version = "HTTP_11"
    /\ Len(callerReq.headers) = 1
    /\ sent = [callerReq EXCEPT !.version = "HTTP_2"]

\* C36: the rewritten target has the incoming target's scheme when the
\* incoming target has one and the base's otherwise, and, chosen independently
\* of the scheme, the incoming target's authority when it has one and the
\* base's otherwise.
C36_SchemeAndAuthorityChosenSeparately ==
    (rewritten /\ uri # PanicUri) =>
        /\ uri.scheme = (IF input_url.scheme # "" THEN input_url.scheme
                         ELSE base_url.scheme)
        /\ uri.authority = (IF input_url.authority # "" THEN input_url.authority
                            ELSE base_url.authority)

C36_Witness ==
    /\ rewritten
    /\ base_url.scheme = "https"
    /\ base_url.authority = "host"
    /\ input_url.scheme = ""
    /\ input_url.authority = "other"
    /\ uri.scheme = "https"
    /\ uri.authority = "other"

\* C37: when the base has a path+query and the incoming target has none, the
\* rewritten target's path+query is the base's path+query as it stands, query
\* and trailing slashes included; with an absolute base the rewrite succeeds.
C37_EmptyTargetTakesBasePath ==
    (rewritten /\ base_url.pq # <<>> /\ input_url.pq = <<>>) =>
        /\ (uri # PanicUri) => (uri.pq = base_url.pq)
        /\ (base_url.scheme # "") => (uri # PanicUri)

C37_Witness ==
    /\ rewritten
    /\ input_url.pq = <<>>
    /\ base_url.pq = <<"/", "a", "/", "?">>
    /\ uri = Uri("https", "other", <<"/", "a", "/", "?">>)

====
